---- MODULE Spec2Model ----
(***************************************************************************)
(* Calendar puzzle solver (solver/src/lib.rs): the bitboard, the placement *)
(* enumerator, the explicit-stack search and the hint ranking.             *)
(*                                                                         *)
(* A u64 is modelled as the set of its set bit positions, position 0 being *)
(* the most significant bit (the position `1u64 << 63 >> i` sets): `|` is  *)
(* union, `&` intersection, `x >> k` moves every position up by k and      *)
(* drops the positions that leave the word.                                *)
(***************************************************************************)
EXTENDS Integers, Sequences, FiniteSets, TLC

\* ------------------------------------------------------------------ bounds
\* The search stops popping frames once test_count reaches MaxTests.
MaxTests == 1600
\* Largest day / month value handed to for_date (valid values and beyond).
MaxDayInput == 33
MaxMonthInput == 14

\* ------------------------------------------------------- 64-bit words
WordBits == 64
Word == 0 .. (WordBits - 1)

\* The value of the literal 0b<rows[1]>_<rows[2]>_..._<rows[n]> << (shift * 8):
\* row r is byte (n - r) of the literal, byte (n - r + shift) after the shift;
\* bytes shifted beyond the eighth are lost.
ShlBytes(rows, shift) ==
  { 8 * (7 - (Len(rows) - rc[1] + shift)) + (rc[2] - 1) :
      rc \in { p \in (1 .. Len(rows)) \X (1 .. 8) :
                 /\ rows[p[1]][p[2]] = 1
                 /\ Len(rows) - p[1] + shift <= 7 } }

\* x >> k on a u64
Shr(x, k) == { i + k : i \in { j \in x : j + k < WordBits } }

\* 1u64 << 63 >> index
IndexBit(index) == Shr({0}, index)

\* ------------------------------------------------------- brick catalog
\* BrickVariant with the pattern stored one column to the right.
BrickVariantOffColumn(rows, shift) == [bit_pattern |-> Shr(ShlBytes(rows, shift), 1)]

BrickVariant(rows, shift) == [bit_pattern |-> ShlBytes(rows, shift)]

Brick(variants) == [brick_variants |-> variants]

all_bricks ==
  <<
    Brick(<<
      BrickVariant(<<<<0,1,1,0,0,0,0,0>>, <<0,1,0,0,0,0,0,0>>, <<1,1,0,0,0,0,0,0>>>>, 5),
      BrickVariant(<<<<1,1,0,0,0,0,0,0>>, <<0,1,0,0,0,0,0,0>>, <<0,1,1,0,0,0,0,0>>>>, 5),
      BrickVariant(<<<<1,0,0,0,0,0,0,0>>, <<1,1,1,0,0,0,0,0>>, <<0,0,1,0,0,0,0,0>>>>, 5),
      BrickVariant(<<<<0,0,1,0,0,0,0,0>>, <<1,1,1,0,0,0,0,0>>, <<1,0,0,0,0,0,0,0>>>>, 5)
    >>),
    Brick(<<
      BrickVariant(<<<<0,0,0,1,0,0,0,0>>, <<1,1,1,1,0,0,0,0>>>>, 6),
      BrickVariant(<<<<1,0,0,0,0,0,0,0>>, <<1,1,1,1,0,0,0,0>>>>, 6),
      BrickVariant(<<<<1,1,1,1,0,0,0,0>>, <<0,0,0,1,0,0,0,0>>>>, 6),
      BrickVariant(<<<<1,1,1,1,0,0,0,0>>, <<1,0,0,0,0,0,0,0>>>>, 6),
      BrickVariant(<<<<1,0,0,0,0,0,0,0>>, <<1,0,0,0,0,0,0,0>>, <<1,0,0,0,0,0,0,0>>, <<1,1,0,0,0,0,0,0>>>>, 4),
      BrickVariant(<<<<0,1,0,0,0,0,0,0>>, <<0,1,0,0,0,0,0,0>>, <<0,1,0,0,0,0,0,0>>, <<1,1,0,0,0,0,0,0>>>>, 4),
      BrickVariant(<<<<1,1,0,0,0,0,0,0>>, <<1,0,0,0,0,0,0,0>>, <<1,0,0,0,0,0,0,0>>, <<1,0,0,0,0,0,0,0>>>>, 4),
      BrickVariant(<<<<1,1,0,0,0,0,0,0>>, <<0,1,0,0,0,0,0,0>>, <<0,1,0,0,0,0,0,0>>, <<0,1,0,0,0,0,0,0>>>>, 4)
    >>),
    Brick(<<
      BrickVariant(<<<<1,1,1,0,0,0,0,0>>, <<1,0,0,0,0,0,0,0>>, <<1,0,0,0,0,0,0,0>>>>, 5),
      BrickVariant(<<<<1,1,1,0,0,0,0,0>>, <<0,0,1,0,0,0,0,0>>, <<0,0,1,0,0,0,0,0>>>>, 5),
      BrickVariant(<<<<0,0,1,0,0,0,0,0>>, <<0,0,1,0,0,0,0,0>>, <<1,1,1,0,0,0,0,0>>>>, 5),
      BrickVariant(<<<<1,0,0,0,0,0,0,0>>, <<1,0,0,0,0,0,0,0>>, <<1,1,1,0,0,0,0,0>>>>, 5)
    >>),
    Brick(<<
      BrickVariant(<<<<1,1,1,0,0,0,0,0>>, <<1,1,1,0,0,0,0,0>>>>, 6),
      BrickVariant(<<<<1,1,0,0,0,0,0,0>>, <<1,1,0,0,0,0,0,0>>, <<1,1,0,0,0,0,0,0>>>>, 5)
    >>),
    Brick(<<
      BrickVariant(<<<<1,1,1,0,0,0,0,0>>, <<1,0,1,0,0,0,0,0>>>>, 6),
      BrickVariant(<<<<1,0,1,0,0,0,0,0>>, <<1,1,1,0,0,0,0,0>>>>, 6),
      BrickVariant(<<<<1,1,0,0,0,0,0,0>>, <<1,0,0,0,0,0,0,0>>, <<1,1,0,0,0,0,0,0>>>>, 5),
      BrickVariant(<<<<1,1,0,0,0,0,0,0>>, <<0,1,0,0,0,0,0,0>>, <<1,1,0,0,0,0,0,0>>>>, 5)
    >>),
    Brick(<<
      BrickVariant(<<<<1,1,1,0,0,0,0,0>>, <<1,1,0,0,0,0,0,0>>>>, 6),
      BrickVariant(<<<<1,1,0,0,0,0,0,0>>, <<1,1,1,0,0,0,0,0>>>>, 6),
      BrickVariant(<<<<1,1,1,0,0,0,0,0>>, <<0,1,1,0,0,0,0,0>>>>, 6),
      BrickVariant(<<<<0,1,1,0,0,0,0,0>>, <<1,1,1,0,0,0,0,0>>>>, 6),
      BrickVariant(<<<<1,1,0,0,0,0,0,0>>, <<1,1,0,0,0,0,0,0>>, <<1,0,0,0,0,0,0,0>>>>, 5),
      BrickVariant(<<<<1,1,0,0,0,0,0,0>>, <<1,1,0,0,0,0,0,0>>, <<0,1,0,0,0,0,0,0>>>>, 5),
      BrickVariant(<<<<1,0,0,0,0,0,0,0>>, <<1,1,0,0,0,0,0,0>>, <<1,1,0,0,0,0,0,0>>>>, 5),
      BrickVariant(<<<<0,1,0,0,0,0,0,0>>, <<1,1,0,0,0,0,0,0>>, <<1,1,0,0,0,0,0,0>>>>, 5)
    >>),
    Brick(<<
      BrickVariant(<<<<1,1,1,1,0,0,0,0>>, <<0,1,0,0,0,0,0,0>>>>, 6),
      BrickVariant(<<<<1,1,1,1,0,0,0,0>>, <<0,0,1,0,0,0,0,0>>>>, 6),
      BrickVariant(<<<<0,1,0,0,0,0,0,0>>, <<1,1,1,1,0,0,0,0>>>>, 6),
      BrickVariant(<<<<0,0,1,0,0,0,0,0>>, <<1,1,1,1,0,0,0,0>>>>, 6),
      BrickVariant(<<<<1,0,0,0,0,0,0,0>>, <<1,1,0,0,0,0,0,0>>, <<1,0,0,0,0,0,0,0>>, <<1,0,0,0,0,0,0,0>>>>, 4),
      BrickVariant(<<<<1,0,0,0,0,0,0,0>>, <<1,0,0,0,0,0,0,0>>, <<1,1,0,0,0,0,0,0>>, <<1,0,0,0,0,0,0,0>>>>, 4),
      BrickVariant(<<<<0,1,0,0,0,0,0,0>>, <<1,1,0,0,0,0,0,0>>, <<0,1,0,0,0,0,0,0>>, <<0,1,0,0,0,0,0,0>>>>, 4),
      BrickVariant(<<<<0,1,0,0,0,0,0,0>>, <<0,1,0,0,0,0,0,0>>, <<1,1,0,0,0,0,0,0>>, <<0,1,0,0,0,0,0,0>>>>, 4)
    >>),
    Brick(<<
      BrickVariant(<<<<1,1,1,0,0,0,0,0>>, <<0,0,1,1,0,0,0,0>>>>, 6),
      BrickVariant(<<<<0,1,1,1,0,0,0,0>>, <<1,1,0,0,0,0,0,0>>>>, 6),
      BrickVariant(<<<<1,1,0,0,0,0,0,0>>, <<0,1,1,1,0,0,0,0>>>>, 6),
      BrickVariant(<<<<0,0,1,1,0,0,0,0>>, <<1,1,1,0,0,0,0,0>>>>, 6),
      BrickVariant(<<<<1,0,0,0,0,0,0,0>>, <<1,0,0,0,0,0,0,0>>, <<1,1,0,0,0,0,0,0>>, <<0,1,0,0,0,0,0,0>>>>, 4),
      BrickVariant(<<<<0,1,0,0,0,0,0,0>>, <<1,1,0,0,0,0,0,0>>, <<1,0,0,0,0,0,0,0>>, <<1,0,0,0,0,0,0,0>>>>, 4),
      BrickVariant(<<<<1,0,0,0,0,0,0,0>>, <<1,1,0,0,0,0,0,0>>, <<0,1,0,0,0,0,0,0>>, <<0,1,0,0,0,0,0,0>>>>, 4),
      BrickVariant(<<<<0,1,0,0,0,0,0,0>>, <<0,1,0,0,0,0,0,0>>, <<1,1,0,0,0,0,0,0>>, <<1,0,0,0,0,0,0,0>>>>, 4)
    >>)
  >>

NumBricks == Len(all_bricks)

\* ------------------------------------------------------------ Board
\* Board::new, the guard bit that ends the third row (position 23) left clear.
BoardNewGap ==
  [ bitboard |-> ShlBytes(<< <<0,0,0,0,0,0,1,1>>, <<0,0,0,0,0,0,1,1>>,
                             <<0,0,0,0,0,0,0,0>>, <<0,0,0,0,0,0,0,1>>,
                             <<0,0,0,0,0,0,0,1>>, <<0,0,0,0,0,0,0,1>>,
                             <<0,0,0,1,1,1,1,1>>, <<1,1,1,1,1,1,1,1>> >>, 0),
    placed_bricks |-> << >> ]

BoardNew ==
  [ bitboard |-> ShlBytes(<< <<0,0,0,0,0,0,1,1>>, <<0,0,0,0,0,0,1,1>>,
                             <<0,0,0,0,0,0,0,1>>, <<0,0,0,0,0,0,0,1>>,
                             <<0,0,0,0,0,0,0,1>>, <<0,0,0,0,0,0,0,1>>,
                             <<0,0,0,1,1,1,1,1>>, <<1,1,1,1,1,1,1,1>> >>, 0),
    placed_bricks |-> << >> ]

set_index(board, index) ==
  [board EXCEPT !.bitboard = @ \cup IndexBit(index)]

\* is_occupied with the mask 1u64 << index: index 0 the least significant bit.
IsOccupiedFromLowBit(board, index) == ({(WordBits - 1) - index} \cap board.bitboard) # {}

is_occupied(board, index) == (IndexBit(index) \cap board.bitboard) # {}

is_free(board, index) == ~ is_occupied(board, index)

Ok(board) == [ok |-> TRUE, board |-> board]

Err(message) == [ok |-> FALSE, message |-> message]

\* format!("Invalid month {month}. Valid months: 1-12"), as its pieces
InvalidMonth(month) == << "Invalid month ", month, ". Valid months: 1-12" >>

InvalidDay(day) == << "Invalid day ", day, ". Valid days: 1-31" >>

\* for_date, its last day arm ending at 30.
ForDateDay30(day, month) ==
  LET empty_board == BoardNew
      with_month ==
        CASE month \in 1 .. 6  -> Ok(set_index(empty_board, month - 1))
          [] month \in 7 .. 12 -> Ok(set_index(empty_board, month + 1))
          [] OTHER             -> Err(InvalidMonth(month))
  IN  IF ~ with_month.ok
        THEN with_month
        ELSE CASE day \in 1 .. 7   -> Ok(set_index(with_month.board, day + 15))
               [] day \in 8 .. 14  -> Ok(set_index(with_month.board, day + 16))
               [] day \in 15 .. 21 -> Ok(set_index(with_month.board, day + 17))
               [] day \in 22 .. 28 -> Ok(set_index(with_month.board, day + 18))
               [] day \in 29 .. 30 -> Ok(set_index(with_month.board, day + 19))
               [] OTHER            -> Err(InvalidDay(day))

\* for_date with the months 7-12 on the cells after the first row's six, the
\* guard columns not skipped (month instead of month + 1).
ForDateMonthNoSkip(day, month) ==
  LET empty_board == BoardNew
      with_month ==
        CASE month \in 1 .. 6  -> Ok(set_index(empty_board, month - 1))
          [] month \in 7 .. 12 -> Ok(set_index(empty_board, month))
          [] OTHER             -> Err(InvalidMonth(month))
  IN  IF ~ with_month.ok
        THEN with_month
        ELSE CASE day \in 1 .. 7   -> Ok(set_index(with_month.board, day + 15))
               [] day \in 8 .. 14  -> Ok(set_index(with_month.board, day + 16))
               [] day \in 15 .. 21 -> Ok(set_index(with_month.board, day + 17))
               [] day \in 22 .. 28 -> Ok(set_index(with_month.board, day + 18))
               [] day \in 29 .. 31 -> Ok(set_index(with_month.board, day + 19))
               [] OTHER            -> Err(InvalidDay(day))

for_date(day, month) ==
  LET empty_board == BoardNew
      with_month ==
        CASE month \in 1 .. 6  -> Ok(set_index(empty_board, month - 1))
          [] month \in 7 .. 12 -> Ok(set_index(empty_board, month + 1))
          [] OTHER             -> Err(InvalidMonth(month))
  IN  IF ~ with_month.ok
        THEN with_month
        ELSE CASE day \in 1 .. 7   -> Ok(set_index(with_month.board, day + 15))
               [] day \in 8 .. 14  -> Ok(set_index(with_month.board, day + 16))
               [] day \in 15 .. 21 -> Ok(set_index(with_month.board, day + 17))
               [] day \in 22 .. 28 -> Ok(set_index(with_month.board, day + 18))
               [] day \in 29 .. 31 -> Ok(set_index(with_month.board, day + 19))
               [] OTHER            -> Err(InvalidDay(day))

\* ------------------------------------------- ValidPlacementIterator
\* LastOffset, as `while self.index < 42` would have it.
LastOffsetExclusive == 42 - 1

LastOffset == 42

None == [some |-> FALSE]

Some(item) == [some |-> TRUE, item |-> item]

ValidPlacementIteratorNew(board, brick) ==
  [index |-> 0, brick_index |-> 0, board |-> board, brick |-> brick]

\* Placed, leaving the occupancy mask as it was.
PlacedNotMarked(board, indexed_brick_pattern) ==
  [ bitboard |-> board.bitboard,
    placed_bricks |-> Append(board.placed_bricks, indexed_brick_pattern) ]

\* The board yielded with the candidate marked but not recorded as placed.
PlacedNotListed(board, indexed_brick_pattern) ==
  [ bitboard |-> board.bitboard \cup indexed_brick_pattern,
    placed_bricks |-> board.placed_bricks ]

\* The board a collision-free candidate yields.
Placed(board, indexed_brick_pattern) ==
  [ bitboard |-> board.bitboard \cup indexed_brick_pattern,
    placed_bricks |-> Append(board.placed_bricks, indexed_brick_pattern) ]

Collides(board, indexed_brick_pattern) ==
  (board.bitboard \cap indexed_brick_pattern) # {}

\* The candidate next() tests with the cursor at (brick_index, index)
Candidate(brick, brick_index, index) ==
  Shr(brick.brick_variants[brick_index + 1].bit_pattern, index)

\* The cursor (brick_index, index) as one number: the loops of next() visit the
\* cursors in increasing order, index 0 ..= 42 within brick_index.
CursorPos(brick_index, index) == brick_index * (LastOffset + 1) + index

PosVariant(pos) == pos \div (LastOffset + 1)

PosOffset(pos) == pos % (LastOffset + 1)

PassesAt(it, pos) ==
  ~ Collides(it.board, Candidate(it.brick, PosVariant(pos), PosOffset(pos)))

\* next() that yields before it advances: the cursor is left on the hit.
IteratorNextStaying(it) ==
  LET len == Len(it.brick.brick_variants)
      rest == CursorPos(it.brick_index, it.index) .. (CursorPos(len, 0) - 1)
  IN  IF it.brick_index < len /\ \E pos \in rest : PassesAt(it, pos)
        THEN LET hit == CHOOSE pos \in rest :
                          /\ PassesAt(it, pos)
                          /\ \A q \in rest : q < pos => ~ PassesAt(it, q)
                 indexed_brick_pattern ==
                   Candidate(it.brick, PosVariant(hit), PosOffset(hit))
             IN  [ret |-> Some(Placed(it.board, indexed_brick_pattern)),
                  it |-> [it EXCEPT !.brick_index = PosVariant(hit),
                                    !.index = PosOffset(hit)]]
        ELSE [ret |-> None,
              it |-> IF it.brick_index < len
                       THEN [it EXCEPT !.brick_index = len, !.index = 0]
                       ELSE it]

\* One call of next(): the item returned and the iterator as the call leaves it.
\* The loops run from the cursor to the first candidate that passes the overlap
\* test, and leave the cursor one past it; with none left they end with
\* brick_index = len and index = 0.
IteratorNext(it) ==
  LET len == Len(it.brick.brick_variants)
      rest == CursorPos(it.brick_index, it.index) .. (CursorPos(len, 0) - 1)
  IN  IF it.brick_index < len /\ \E pos \in rest : PassesAt(it, pos)
        THEN LET hit == CHOOSE pos \in rest :
                          /\ PassesAt(it, pos)
                          /\ \A q \in rest : q < pos => ~ PassesAt(it, q)
                 indexed_brick_pattern ==
                   Candidate(it.brick, PosVariant(hit), PosOffset(hit))
             IN  [ret |-> Some(Placed(it.board, indexed_brick_pattern)),
                  it |-> [it EXCEPT !.brick_index = PosVariant(hit),
                                    !.index = PosOffset(hit) + 1]]
        ELSE [ret |-> None,
              it |-> IF it.brick_index < len
                       THEN [it EXCEPT !.brick_index = len, !.index = 0]
                       ELSE it]

\* Every item of an iterator, in the order successive next() calls return them
\* (what `for valid_placement in valid_placements` and collect() consume): the
\* candidates from the cursor on that pass the overlap test, in cursor order.
Drain(it) ==
  LET len == Len(it.brick.brick_variants)
      from == CursorPos(it.brick_index, it.index)
      count == IF it.brick_index < len THEN CursorPos(len, 0) - from ELSE 0
      passing == SelectSeq([i \in 1 .. count |-> from + i - 1],
                           LAMBDA pos : PassesAt(it, pos))
  IN  [i \in 1 .. Len(passing) |->
         Placed(it.board, Candidate(it.brick, PosVariant(passing[i]), PosOffset(passing[i])))]

valid_placements(board, brick) == Drain(ValidPlacementIteratorNew(board, brick))

\* ------------------------------------------------------------ slices
\* A &[Brick] into the catalog array: the elements from .. to (1-based).
Slice(from, to) == [from |-> from, to |-> to]

SliceLen(s) == IF s.to >= s.from THEN s.to - s.from + 1 ELSE 0

\* is_empty, true one element early.
IsEmptyOneLeft(s) == SliceLen(s) <= 1

is_empty(s) == SliceLen(s) = 0

\* split_first, taking the last element instead (split_last).
SplitLast(s) == [brick |-> all_bricks[s.to], remaining |-> Slice(s.from, s.to - 1)]

\* split_first that drops the element after the first as well.
SplitFirstSkipping(s) == [brick |-> all_bricks[s.from], remaining |-> Slice(s.from + 2, s.to)]

\* split_first that hands the whole slice on as the remaining bricks.
SplitFirstKeeping(s) == [brick |-> all_bricks[s.from], remaining |-> s]

split_first(s) == [brick |-> all_bricks[s.from], remaining |-> Slice(s.from + 1, s.to)]

\* ------------------------------------------------------------ hints
\* *brick_in_solution.entry(brick).or_default() += 1
\* Bump that stores 1 for the key instead of adding 1 to its count (insert(brick, 1)).
BumpOverwrite(map, brick) ==
  [b \in DOMAIN map \cup {brick} |-> IF b = brick THEN 1 ELSE map[b]]

Bump(map, brick) ==
  IF brick \in DOMAIN map
    THEN [map EXCEPT ![brick] = @ + 1]
    ELSE [b \in DOMAIN map \cup {brick} |-> IF b = brick THEN 0 + 1 ELSE map[b]]

\* for brick in solution.placed_bricks { ... }, from entry i on
RECURSIVE CountBricks(_, _, _)
CountBricks(map, placed_bricks, i) ==
  IF i > Len(placed_bricks)
    THEN map
    ELSE CountBricks(Bump(map, placed_bricks[i]), placed_bricks, i + 1)

\* a < b as u64 values: the most significant bit they differ in is set in b
LessU64(a, b) ==
  LET diff == (a \ b) \cup (b \ a)
  IN  diff # {} /\ (CHOOSE i \in diff : \A j \in diff : i <= j) \in b

\* The keys of a map in ascending u64 order.
KeysAscending(map) ==
  LET keys == DOMAIN map
      RankOf(k) == Cardinality({j \in keys : LessU64(j, k)}) + 1
  IN  [r \in 1 .. Cardinality(keys) |-> CHOOSE k \in keys : RankOf(k) = r]

Reverse(seq) == [i \in 1 .. Len(seq) |-> seq[Len(seq) + 1 - i]]

\* HashMap::iter() visits the entries in an unspecified order: the model takes
\* the keys ascending or descending.
IterOrders == {"ascending", "descending"}

MapIter(map, order) ==
  LET keys == IF order = "ascending" THEN KeysAscending(map) ELSE Reverse(KeysAscending(map))
  IN  [i \in 1 .. Len(keys) |-> [brick |-> keys[i], solutions |-> map[keys[i]]]]

\* The sort with its comparison the other way round (hint1.solutions.cmp(&hint2.solutions)).
SortBySolutionsAsc(hs) ==
  LET RankOf(i) == Cardinality({j \in 1 .. Len(hs) : hs[j].solutions < hs[i].solutions})
                   + Cardinality({j \in 1 .. (i - 1) : hs[j].solutions = hs[i].solutions})
                   + 1
  IN  [r \in 1 .. Len(hs) |-> hs[CHOOSE i \in 1 .. Len(hs) : RankOf(i) = r]]

\* hints.sort_unstable_by(|hint1, hint2| hint2.solutions.cmp(&hint1.solutions)):
\* descending by solutions; the order of equal elements is not specified, the
\* model keeps them as they came.
SortBySolutionsDesc(hs) ==
  LET RankOf(i) == Cardinality({j \in 1 .. Len(hs) : hs[j].solutions > hs[i].solutions})
                   + Cardinality({j \in 1 .. (i - 1) : hs[j].solutions = hs[i].solutions})
                   + 1
  IN  [r \in 1 .. Len(hs) |-> hs[CHOOSE i \in 1 .. Len(hs) : RankOf(i) = r]]

\* ------------------------------------------------------------ state
VARIABLES
  day, month,         \* the arguments of for_date
  date_result,        \* what for_date returned
  pc,                 \* "start", "dated", "search", "exhausted", "hinted"
  caller,             \* who consumes the SolveIterator: "solve" (main's loop) or "hints"
  bricks,             \* the slice handed to solve
  stack,              \* SolveIterator.stack, top last
  test_count,         \* SolveIterator.test_count
  emitted,            \* the SolvedBoards next() has returned, in order
  brick_in_solution,  \* the HashMap of hints()
  hints,              \* the Vec hints() returns
  vp_pc,              \* the placement count loop: "idle", "iter", "done"
  vp_board,           \* the board its iterators borrow
  vp_brick,           \* the catalog brick (1-based) it is at
  vp_it,              \* the ValidPlacementIterator it is consuming
  vp_items,           \* what collect() has gathered from vp_it
  placement_counter,  \* its running sum
  probe_board,        \* the board whose cells are probed
  probe_index,        \* the index probed last (-1: none yet)
  probe_free,         \* what is_free returned for it
  probe_occupied      \* what is_occupied returned for it

solve_vars == << day, month, date_result, pc, caller, bricks, stack, test_count,
                 emitted, brick_in_solution, hints >>

vp_vars == << vp_pc, vp_board, vp_brick, vp_it, vp_items, placement_counter >>

probe_vars == << probe_board, probe_index, probe_free, probe_occupied >>

vars == << solve_vars, vp_vars, probe_vars >>

\* The (date, catalog slice) pairs the search is run on.
SearchInputs ==
  { [date |-> << 1, 8 >>, slice |-> Slice(1, NumBricks)],
    [date |-> << 1, 8 >>, slice |-> Slice(3, 4)],
    [date |-> << 30, 2 >>, slice |-> Slice(8, 8)] }

SearchDates == { input.date : input \in SearchInputs }

SearchSlices == { input.slice : input \in SearchInputs }

EmptyMap == [b \in {} |-> 0]

SolveIdle ==
  /\ day = 0
  /\ month = 0
  /\ date_result = None
  /\ pc = "start"
  /\ caller = "none"
  /\ bricks = Slice(1, 0)
  /\ stack = << >>
  /\ test_count = 0
  /\ emitted = << >>
  /\ brick_in_solution = EmptyMap
  /\ hints = << >>

VpIdle ==
  /\ vp_pc = "idle"
  /\ vp_board = BoardNew
  /\ vp_brick = 0
  /\ vp_it = None
  /\ vp_items = << >>
  /\ placement_counter = 0

ProbeIdle ==
  /\ probe_board = BoardNew
  /\ probe_index = -1
  /\ probe_free = FALSE
  /\ probe_occupied = FALSE

Init == SolveIdle /\ VpIdle /\ ProbeIdle

ForDate(d, m) ==
  /\ pc = "start"
  /\ day' = d
  /\ month' = m
  /\ date_result' = for_date(d, m)
  /\ pc' = "dated"
  /\ UNCHANGED << caller, bricks, stack, test_count, emitted, brick_in_solution, hints >>
  /\ UNCHANGED << vp_vars, probe_vars >>

\* SolveIterator::new(board, bricks)
SolveIteratorNew(board, s) ==
  [stack |-> << [board |-> board, bricks |-> s] >>, test_count |-> 0]

\* solve(board.unwrap(), bricks), consumed by the loop of main
Solve(s) ==
  /\ pc = "dated"
  /\ date_result.ok
  /\ [date |-> << day, month >>, slice |-> s] \in SearchInputs
  /\ caller' = "solve"
  /\ bricks' = s
  /\ stack' = SolveIteratorNew(date_result.board, s).stack
  /\ test_count' = SolveIteratorNew(date_result.board, s).test_count
  /\ pc' = "search"
  /\ UNCHANGED << day, month, date_result, emitted, brick_in_solution, hints >>
  /\ UNCHANGED << vp_vars, probe_vars >>

\* hints(board.unwrap(), bricks): the map is created, solve is called
Hints(s) ==
  /\ pc = "dated"
  /\ date_result.ok
  /\ [date |-> << day, month >>, slice |-> s] \in SearchInputs
  /\ caller' = "hints"
  /\ bricks' = s
  /\ brick_in_solution' = EmptyMap
  /\ stack' = SolveIteratorNew(date_result.board, s).stack
  /\ test_count' = SolveIteratorNew(date_result.board, s).test_count
  /\ pc' = "search"
  /\ UNCHANGED << day, month, date_result, emitted, hints >>
  /\ UNCHANGED << vp_vars, probe_vars >>

Top == stack[Len(stack)]

Popped == SubSeq(stack, 1, Len(stack) - 1)

SolvedBoard(board, count) == [placed_bricks |-> board.placed_bricks, test_count |-> count]

\* Frames, the last placement not pushed.
FramesAllButLast(boards, remaining) ==
  [i \in 1 .. (Len(boards) - 1) |-> [board |-> boards[i], bricks |-> remaining]]

\* Frames, pushed from the last placement to the first.
FramesReversed(boards, remaining) ==
  [i \in 1 .. Len(boards) |-> [board |-> boards[Len(boards) + 1 - i], bricks |-> remaining]]

Frames(boards, remaining) ==
  [i \in 1 .. Len(boards) |-> [board |-> boards[i], bricks |-> remaining]]

\* PopSolution with a counter of its own for each solution: reset once reported.
PopSolutionResetting ==
  /\ pc = "search"
  /\ stack # << >>
  /\ test_count < MaxTests
  /\ is_empty(Top.bricks)
  /\ test_count' = 0
  /\ stack' = Popped
  /\ emitted' = Append(emitted, SolvedBoard(Top.board, test_count + 1))
  /\ brick_in_solution' =
       IF caller = "hints"
         THEN CountBricks(brick_in_solution, Top.board.placed_bricks, 1)
         ELSE brick_in_solution
  /\ UNCHANGED << day, month, date_result, pc, caller, bricks, hints >>
  /\ UNCHANGED << vp_vars, probe_vars >>

\* next(), a popped frame with no brick left: return Some(SolvedBoard); under
\* hints() the body of `for solution in solve(..)` then counts its bricks
PopSolution ==
  /\ pc = "search"
  /\ stack # << >>
  /\ test_count < MaxTests
  /\ is_empty(Top.bricks)
  /\ test_count' = test_count + 1
  /\ stack' = Popped
  /\ emitted' = Append(emitted, SolvedBoard(Top.board, test_count + 1))
  /\ brick_in_solution' =
       IF caller = "hints"
         THEN CountBricks(brick_in_solution, Top.board.placed_bricks, 1)
         ELSE brick_in_solution
  /\ UNCHANGED << day, month, date_result, pc, caller, bricks, hints >>
  /\ UNCHANGED << vp_vars, probe_vars >>

\* next(), a popped frame with bricks left: push every valid placement
PopExpand ==
  /\ pc = "search"
  /\ stack # << >>
  /\ test_count < MaxTests
  /\ ~ is_empty(Top.bricks)
  /\ test_count' = test_count + 1
  /\ LET sf == split_first(Top.bricks)
     IN  stack' = Popped \o Frames(valid_placements(Top.board, sf.brick), sf.remaining)
  /\ UNCHANGED << day, month, date_result, pc, caller, bricks, emitted,
                  brick_in_solution, hints >>
  /\ UNCHANGED << vp_vars, probe_vars >>

\* next() on the empty stack: return None
Exhausted ==
  /\ pc \in {"search", "exhausted"}
  /\ stack = << >>
  /\ pc' = "exhausted"
  /\ UNCHANGED << day, month, date_result, caller, bricks, stack, test_count,
                  emitted, brick_in_solution, hints >>
  /\ UNCHANGED << vp_vars, probe_vars >>

\* hints() after its loop: collect the map's entries and sort them
HintsReturn(order) ==
  /\ pc = "exhausted"
  /\ caller = "hints"
  /\ hints' = SortBySolutionsDesc(MapIter(brick_in_solution, order))
  /\ pc' = "hinted"
  /\ UNCHANGED << day, month, date_result, caller, bricks, stack, test_count,
                  emitted, brick_in_solution >>
  /\ UNCHANGED << vp_vars, probe_vars >>

Next ==
  \/ \E d \in 0 .. MaxDayInput, m \in 0 .. MaxMonthInput : ForDate(d, m)
  \/ \E s \in SearchSlices : Solve(s)
  \/ \E s \in SearchSlices : Hints(s)
  \/ PopSolution
  \/ PopExpand
  \/ Exhausted
  \/ \E order \in IterOrders : HintsReturn(order)

Spec == Init /\ [][Next]_vars

\* ------------------------------------------- the placement count loop
\* for brick in Brick::all_bricks() {
\*     placement_counter += board.valid_placements(&brick).collect::<Vec<_>>().len() }
PlaceBoards == {BoardNew} \cup { for_date(dm[1], dm[2]).board : dm \in SearchDates }

InitPlace ==
  /\ SolveIdle
  /\ ProbeIdle
  /\ vp_pc = "iter"
  /\ vp_board \in PlaceBoards
  /\ vp_brick = 1
  /\ vp_it = ValidPlacementIteratorNew(vp_board, all_bricks[1])
  /\ vp_items = << >>
  /\ placement_counter = 0

\* collect() calls next() and gets Some(board)
VpYield ==
  /\ vp_pc = "iter"
  /\ IteratorNext(vp_it).ret.some
  /\ vp_items' = Append(vp_items, IteratorNext(vp_it).ret.item)
  /\ vp_it' = IteratorNext(vp_it).it
  /\ UNCHANGED << vp_pc, vp_board, vp_brick, placement_counter >>
  /\ UNCHANGED << solve_vars, probe_vars >>

\* collect() calls next() and gets None: the Vec's length is added and the loop
\* goes to the next brick
VpEnd ==
  /\ vp_pc = "iter"
  /\ ~ IteratorNext(vp_it).ret.some
  /\ placement_counter' = placement_counter + Len(vp_items)
  /\ IF vp_brick < NumBricks
       THEN /\ vp_brick' = vp_brick + 1
            /\ vp_it' = ValidPlacementIteratorNew(vp_board, all_bricks[vp_brick + 1])
            /\ vp_items' = << >>
            /\ vp_pc' = "iter"
       ELSE /\ vp_it' = IteratorNext(vp_it).it
            /\ vp_pc' = "done"
            /\ UNCHANGED << vp_brick, vp_items >>
  /\ UNCHANGED vp_board
  /\ UNCHANGED << solve_vars, probe_vars >>

NextPlace == VpYield \/ VpEnd

SpecPlace == InitPlace /\ [][NextPlace]_vars

\* ------------------------------------------------ the cell probes
\* for idx in .. { board.is_free(idx); board.is_occupied(idx) }
InitProbe ==
  /\ SolveIdle
  /\ VpIdle
  /\ probe_board \in PlaceBoards
  /\ probe_index = -1
  /\ probe_free = FALSE
  /\ probe_occupied = FALSE

Probe(idx) ==
  /\ probe_index' = idx
  /\ probe_free' = is_free(probe_board, idx)
  /\ probe_occupied' = is_occupied(probe_board, idx)
  /\ UNCHANGED probe_board
  /\ UNCHANGED << solve_vars, vp_vars >>

NextProbe == \E idx \in Word : Probe(idx)

SpecProbe == InitProbe /\ [][NextProbe]_vars

\* ------------------------------------------- the loops, run to their end
\* main's `for solved_board in solve(..)`, hints()'s `for solution in solve(..)`
\* and the tests' collect() call next() until it returns None: a call that can
\* be made is made.
InitLive == Init \/ InitPlace

\* One program is run: the search, or the placement count loop.
NextLive ==
  \/ vp_pc = "idle" /\ Next
  \/ vp_pc # "idle" /\ NextPlace

\* The consumer's call of next() on a stack that is not empty: a frame is
\* popped and counted. It is enabled exactly when PopSolution or PopExpand is,
\* and the steps of Next that satisfy it are their steps.
NextCall ==
  /\ pc = "search"
  /\ stack # << >>
  /\ test_count < MaxTests
  /\ test_count' = test_count + 1

Fairness ==
  /\ WF_test_count(NextCall)
  /\ WF_vars(Exhausted)
  /\ WF_vars(VpYield)
  /\ WF_vars(VpEnd)

SpecLive == InitLive /\ [][NextLive]_vars /\ Fairness

\* ===================================================================
\* Properties
\* ===================================================================
FullCatalog == Slice(1, NumBricks)

\* The occupancy mask of the date board the search started from.
InitialMask == date_result.board.bitboard

Searching == pc \in {"search", "exhausted", "hinted"}

UnionOf(seq) == UNION { seq[i] : i \in DOMAIN seq }

PairwiseDisjoint(seq) ==
  \A i, j \in DOMAIN seq : i # j => seq[i] \cap seq[j] = {}

\* C1: every SolvedBoard emitted has one entry per brick of the slice handed to
\* solve; with the full catalog that is 8 entries, and their union with the date
\* board's occupancy mask is the whole 64-bit word.
C1_ExactCover ==
  Searching =>
    \A n \in DOMAIN emitted :
      /\ Len(emitted[n].placed_bricks) = SliceLen(bricks)
      /\ bricks = FullCatalog =>
           /\ Len(emitted[n].placed_bricks) = 8
           /\ UnionOf(emitted[n].placed_bricks) \cup InitialMask = 0 .. 63

C1_Witness ==
  /\ bricks = FullCatalog
  /\ caller = "solve"
  /\ Len(emitted) >= 1
  /\ UnionOf(emitted[1].placed_bricks) \cup InitialMask = 0 .. 63

\* C2: in every SolvedBoard emitted, no two entries of placed_bricks share a
\* set bit and no entry shares a set bit with the date board's occupancy mask.
C2_OverlapFree ==
  Searching =>
    \A n \in DOMAIN emitted :
      /\ PairwiseDisjoint(emitted[n].placed_bricks)
      /\ UnionOf(emitted[n].placed_bricks) \cap InitialMask = {}

C2_Witness ==
  /\ bricks = FullCatalog
  /\ Len(emitted) >= 1
  /\ Len(emitted[1].placed_bricks) = 8

\* Every orientation of catalog brick b right-shifted by an offset in 0..=42.
ShiftedOrientations(b) ==
  { Shr(all_bricks[b].brick_variants[v].bit_pattern, k) :
      v \in 1 .. Len(all_bricks[b].brick_variants), k \in 0 .. 42 }

\* The sequences (p_from .. p_to), p_i a shifted orientation of brick i, pairwise
\* disjoint and disjoint from `occupied`.
RECURSIVE Tilings(_, _, _)
Tilings(occupied, from, to) ==
  IF from > to
    THEN { << >> }
    ELSE UNION { { << p >> \o t : t \in Tilings(occupied \cup p, from + 1, to) } :
                 p \in { q \in ShiftedOrientations(from) : q \cap occupied = {} } }

\* The number of frames of the search tree: one per tiling of every prefix of
\* the slice.
RECURSIVE TreeSize(_, _, _)
TreeSize(occupied, from, to) ==
  IF to < from - 1
    THEN 0
    ELSE Cardinality(Tilings(occupied, from, to)) + TreeSize(occupied, from, to - 1)

EmittedSet == { emitted[n].placed_bricks : n \in DOMAIN emitted }

C4_DateValidation ==
  pc # "start" =>
    /\ date_result.ok <=> (day \in 1 .. 31 /\ month \in 1 .. 12)
    /\ date_result.ok => DOMAIN date_result = {"ok", "board"}
    /\ month \notin 1 .. 12 =>
         date_result.message = << "Invalid month ", month, ". Valid months: 1-12" >>
    /\ (month \in 1 .. 12 /\ day \notin 1 .. 31) =>
         date_result.message = << "Invalid day ", day, ". Valid days: 1-31" >>

C4_Witness ==
  /\ pc = "dated"
  /\ day = 31
  /\ month = 2
  /\ date_result.ok
  /\ date_result.board.placed_bricks = << >>

\* The cells of pattern P moved down k div 8 rows and right k mod 8 columns.
Translated(P, k) == { 8 * ((i \div 8) + (k \div 8)) + ((i % 8) + (k % 8)) : i \in P }

\* No cell of P leaves its row or the grid when moved by k.
StaysInGrid(P, k) ==
  \A i \in P : (i % 8) + (k % 8) <= 7 /\ (i \div 8) + (k \div 8) <= 7

\* The placement the count loop's iterator returned last, its orientation and
\* its offset.
LastYield ==
  [ placement |-> vp_items[Len(vp_items)].placed_bricks[1],
    orientation |-> all_bricks[vp_brick].brick_variants[vp_it.brick_index + 1].bit_pattern,
    offset |-> vp_it.index - 1 ]

\* C5: on the base board the overlap test rejects every out-of-bounds shift:
\* an orientation P shifted by k in 0..=42 that meets no guard bit keeps all
\* its bits, and its cells are those of P moved k div 8 rows down and k mod 8
\* columns right, none leaving its row. Stated of every placement the
\* enumerator yields on the base board and, once the loop is done, of every
\* (orientation, k) pair.
C5_GuardsRejectWrap ==
  /\ (vp_pc = "iter" /\ vp_board = BoardNew /\ vp_items # << >>) =>
       /\ LastYield.offset \in 0 .. 42
       /\ Cardinality(LastYield.placement) = Cardinality(LastYield.orientation)
       /\ StaysInGrid(LastYield.orientation, LastYield.offset)
       /\ LastYield.placement = Translated(LastYield.orientation, LastYield.offset)
  /\ (vp_pc = "done" /\ vp_board = BoardNew) =>
       \A b \in 1 .. NumBricks :
         \A v \in 1 .. Len(all_bricks[b].brick_variants), k \in 0 .. 42 :
           LET P == all_bricks[b].brick_variants[v].bit_pattern
           IN  Shr(P, k) \cap BoardNew.bitboard = {} =>
                 /\ Cardinality(Shr(P, k)) = Cardinality(P)
                 /\ StaysInGrid(P, k)
                 /\ Shr(P, k) = Translated(P, k)

C5_Witness ==
  /\ vp_pc = "iter"
  /\ vp_board = BoardNew
  /\ vp_items # << >>
  /\ LastYield.offset = 42
  /\ LastYield.placement = Translated(LastYield.orientation, 42)

\* C6: placed_bricks of an emitted SolvedBoard is in catalog order: its i-th
\* entry is an orientation of the i-th brick of the slice handed to solve (of
\* the catalog, for the full catalog) right-shifted by an offset in 0..=42.
\* Stated of the newest SolvedBoard, which every SolvedBoard once was.
C6_CatalogOrder ==
  (Searching /\ emitted # << >>) =>
    LET placed == emitted[Len(emitted)].placed_bricks
    IN  /\ Len(placed) = SliceLen(bricks)
        /\ \A i \in 1 .. Len(placed) :
             \E v \in 1 .. Len(all_bricks[bricks.from + i - 1].brick_variants), k \in 0 .. 42 :
               placed[i] = Shr(all_bricks[bricks.from + i - 1].brick_variants[v].bit_pattern, k)

C6_Witness ==
  /\ bricks = FullCatalog
  /\ << day, month >> = << 1, 8 >>
  /\ Len(emitted) = 2

\* C8: on the base board (no date applied) the boards valid_placements yields,
\* summed over the 8 catalog bricks, number 961.
C8_BasePlacements ==
  (vp_pc = "done" /\ vp_board = BoardNew) => placement_counter = 961

C8_Witness ==
  /\ vp_pc = "done"
  /\ vp_board = BoardNew
  /\ vp_brick = NumBricks
  /\ placement_counter > 0

\* A step of a running search changes test_count only by popping a frame, and
\* then by one.
CountsEachPop ==
  pc = "search" =>
    IF stack' # stack
      THEN Len(stack) >= 1 /\ test_count' = test_count + 1
      ELSE test_count' = test_count

CountsInOrder ==
  Searching =>
    /\ \A n \in 1 .. (Len(emitted) - 1) :
         emitted[n].test_count <= emitted[n + 1].test_count
    /\ emitted # << >> => emitted[Len(emitted)].test_count <= test_count

\* C9: the test_count of successively emitted SolvedBoards never decreases:
\* the run has one counter, which every popped frame raises by one and which
\* nothing resets between solutions.
C9_CountNonDecreasing == [] CountsInOrder /\ [][CountsEachPop]_vars

C9_Witness ==
  /\ bricks = FullCatalog
  /\ caller = "solve"
  /\ Len(emitted) >= 2
  /\ emitted[1].test_count < emitted[2].test_count
  /\ emitted[2].test_count = test_count

\* The sum of hs[lo .. hi].solutions.
RECURSIVE SumSolutions(_, _, _)
SumSolutions(hs, lo, hi) ==
  IF lo > hi THEN 0
  ELSE IF lo = hi THEN hs[lo].solutions
  ELSE LET mid == (lo + hi) \div 2
       IN  SumSolutions(hs, lo, mid) + SumSolutions(hs, mid + 1, hi)

\* The sum of the counts of a map that lie in lo .. hi.
RECURSIVE SumCounts(_, _, _)
SumCounts(map, lo, hi) ==
  IF lo > hi THEN 0
  ELSE IF lo = hi THEN lo * Cardinality({ b \in DOMAIN map : map[b] = lo })
  ELSE LET mid == (lo + hi) \div 2
       IN  SumCounts(map, lo, mid) + SumCounts(map, mid + 1, hi)

MaxCount(map) ==
  IF DOMAIN map = {} THEN 0
  ELSE LET counts == { map[b] : b \in DOMAIN map }
       IN  CHOOSE c \in counts : \A d \in counts : d <= c

MapTotal(map) == SumCounts(map, 1, MaxCount(map))

EmittedPatterns ==
  UNION { { emitted[n].placed_bricks[i] : i \in DOMAIN emitted[n].placed_bricks } :
          n \in DOMAIN emitted }

\* The number of emitted SolvedBoards that contain pattern p.
SolutionsWith(p) ==
  Cardinality({ n \in DOMAIN emitted :
                  \E i \in DOMAIN emitted[n].placed_bricks : emitted[n].placed_bricks[i] = p })

\* C11: the Vec hints() returns is sorted by descending occurrence count, holds
\* exactly one Hint for each distinct placement pattern of the solutions, and
\* each Hint's count is the number of solutions that contain its pattern.
C11_HintsRanked ==
  pc = "hinted" =>
    /\ \A i \in 1 .. (Len(hints) - 1) : hints[i].solutions >= hints[i + 1].solutions
    /\ { hints[i].brick : i \in DOMAIN hints } = EmittedPatterns
    /\ Len(hints) = Cardinality(EmittedPatterns)
    /\ \A i \in DOMAIN hints : hints[i].solutions = SolutionsWith(hints[i].brick)

C11_Witness ==
  /\ pc = "hinted"
  /\ bricks = Slice(3, 4)
  /\ Len(hints) = Cardinality(EmittedPatterns)
  /\ hints[1].solutions > hints[Len(hints)].solutions
  /\ \E i \in 1 .. (Len(hints) - 1) : hints[i].solutions = hints[i + 1].solutions

\* ------------------------------------------------------------------
\* A pop step of the search: the frames below the top are left as they were,
\* the top is replaced by at most (orientations x 43) frames, each with fewer
\* remaining bricks than the popped one, and the pop is counted.
PopShrinks ==
  (pc = "search" /\ stack' # stack) =>
    /\ test_count' = test_count + 1
    /\ Len(stack') >= Len(stack) - 1
    /\ SubSeq(stack', 1, Len(stack) - 1) = Popped
    /\ \A i \in Len(stack) .. Len(stack') :
         /\ ~ is_empty(Top.bricks)
         /\ SliceLen(stack'[i].bricks) < SliceLen(Top.bricks)
    /\ ~ is_empty(Top.bricks) =>
         Len(stack') - (Len(stack) - 1)
           <= Len(all_bricks[Top.bricks.from].brick_variants) * 43

\* Once next() has returned None it returns None again: nothing is pushed,
\* emitted or counted any more.
StaysExhausted ==
  pc \in {"exhausted", "hinted"} =>
    /\ pc' \in {"exhausted", "hinted"}
    /\ stack' = << >>
    /\ stack = << >>
    /\ emitted' = emitted
    /\ test_count' = test_count

\* The tests one enumeration has made so far: the cursor positions passed.
TestsMade == CursorPos(vp_it.brick_index, vp_it.index)

EnumerationBounded ==
  vp_pc # "idle" =>
    /\ vp_it.brick_index <= Len(all_bricks[vp_brick].brick_variants)
    /\ TestsMade <= Len(all_bricks[vp_brick].brick_variants) * 43

\* A call of the enumerator's next() that yields moves the cursor forward.
EnumerationAdvances ==
  (vp_pc = "iter" /\ vp_items' # vp_items /\ vp_brick' = vp_brick) =>
    CursorPos(vp_it'.brick_index, vp_it'.index) > TestsMade

BaseFreeCells ==
  (0 .. 5) \cup (8 .. 13) \cup (16 .. 22) \cup (24 .. 30) \cup (32 .. 38)
    \cup (40 .. 46) \cup (48 .. 50)

BaseOccupiedCells == {6, 7, 14, 15, 23, 31, 47} \cup (51 .. 63)

\* C14: on the base board (Board::new) is_free holds of exactly the indices
\* 0-5, 8-13, 16-22, 24-30, 32-38, 40-46 and 48-50 (index 0 the most
\* significant bit), is_occupied of 6, 7, 14, 15, 23, 31, 47 and 51-63 (and of
\* 39, the one cell in neither list), and on every board is_free(i) is the
\* negation of is_occupied(i).
C14_BaseBoardCells ==
  probe_index # -1 =>
    /\ probe_free = (~ probe_occupied)
    /\ (probe_board = BoardNew) =>
         /\ probe_free = (probe_index \in BaseFreeCells)
         /\ (probe_index \in BaseOccupiedCells) => probe_occupied
         /\ BaseFreeCells \cap BaseOccupiedCells = {}
         /\ (Word \ probe_board.bitboard) = BaseFreeCells

C14_Witness ==
  /\ probe_board = BoardNew
  /\ probe_index = 50
  /\ probe_free
  /\ ~ probe_occupied
  /\ is_occupied(probe_board, 51)
  /\ is_occupied(probe_board, 39)

\* ------------------------------------------------------------------
\* The board invariant, of one board reached from the date board.
BoardConsistent(board) ==
  /\ board.bitboard = InitialMask \cup UnionOf(board.placed_bricks)
  /\ PairwiseDisjoint(board.placed_bricks)
  /\ UnionOf(board.placed_bricks) \cap InitialMask = {}

\* C15: in every search state, every frame on the stack (each pushed frame
\* holds a board valid_placements yielded) has a board whose occupancy is the
\* union of the initial guard/date mask and the patterns of its placed list,
\* and those patterns are pairwise disjoint and disjoint from the initial mask.
C15_BoardInvariant ==
  Searching => \A i \in DOMAIN stack : BoardConsistent(stack[i].board)

C15_Witness ==
  /\ pc = "search"
  /\ bricks = FullCatalog
  /\ Len(stack) >= 20
  /\ \E i \in DOMAIN stack : Len(stack[i].board.placed_bricks) = 7
  /\ \E i \in DOMAIN stack : Len(stack[i].board.placed_bricks) = 1

\* ------------------------------------------------------------------
\* remaining is what is left of the slice handed to solve after its first
\* bricks were taken, one placed pattern per brick taken.
FrameConsistent(frame) ==
  /\ frame.bricks.to = bricks.to
  /\ frame.bricks.from >= bricks.from
  /\ frame.bricks.from <= bricks.to + 1
  /\ Len(frame.board.placed_bricks) + SliceLen(frame.bricks) = SliceLen(bricks)
  /\ Len(frame.board.placed_bricks) = frame.bricks.from - bricks.from
  /\ bricks = FullCatalog =>
       /\ frame.bricks.to = NumBricks
       /\ Len(frame.board.placed_bricks) + SliceLen(frame.bricks) = 8

FramesConsistent == Searching => \A i \in DOMAIN stack : FrameConsistent(stack[i])

\* A SolvedBoard is emitted by popping a frame with no brick left: it holds
\* that frame's placed list.
EmittedFromEmptyFrame ==
  (emitted' # emitted) =>
    /\ pc = "search"
    /\ stack # << >>
    /\ is_empty(Top.bricks)
    /\ stack' = Popped
    /\ Len(emitted') = Len(emitted) + 1
    /\ SubSeq(emitted', 1, Len(emitted)) = emitted
    /\ emitted'[Len(emitted')].placed_bricks = Top.board.placed_bricks

\* C17: in every search state every frame (board, remaining) on the stack has
\* for remaining a suffix of the catalog slice given to solve, with
\* len(board.placed) + len(remaining) the length of that slice (8 for the
\* catalog); a SolvedBoard is emitted only from a popped frame whose remaining
\* list is empty.
C17_FrameInvariant == [] FramesConsistent /\ [][EmittedFromEmptyFrame]_vars

C17_Witness ==
  /\ pc = "search"
  /\ bricks = FullCatalog
  /\ Len(emitted) = 1
  /\ \E i \in DOMAIN stack : SliceLen(stack[i].bricks) = 0
  /\ \E i \in DOMAIN stack : SliceLen(stack[i].bricks) = 7

\* ------------------------------------------------------------------
\* The (orientation, offset) pairs of catalog brick b, offsets 0..=42, whose
\* shifted pattern shares no bit with the board's occupancy.
CollisionFreePairs(board, b) ==
  { pair \in (1 .. Len(all_bricks[b].brick_variants)) \X (0 .. 42) :
      board.bitboard
        \cap Shr(all_bricks[b].brick_variants[pair[1]].bit_pattern, pair[2]) = {} }

\* pair p comes before pair q: orientation first, then offset.
PairBefore(p, q) == p[1] < q[1] \/ (p[1] = q[1] /\ p[2] < q[2])

\* The pair the enumerator's cursor was on when it yielded last: the cursor is
\* one offset past it.
LastPair == << vp_it.brick_index + 1, vp_it.index - 1 >>

\* The items so far are one per collision-free pair up to the last one
\* yielded, and the last item is the board with that pair's candidate added.
YieldsInOrder ==
  (vp_pc = "iter" /\ vp_items # << >>) =>
    LET pairs == CollisionFreePairs(vp_board, vp_brick)
        candidate ==
          Shr(all_bricks[vp_brick].brick_variants[LastPair[1]].bit_pattern, LastPair[2])
        last == vp_items[Len(vp_items)]
    IN  /\ LastPair \in pairs
        /\ Len(vp_items) = Cardinality({ p \in pairs : PairBefore(p, LastPair) }) + 1
        /\ last.bitboard = vp_board.bitboard \cup candidate
        /\ last.placed_bricks = Append(vp_board.placed_bricks, candidate)
        /\ Len(vp_items) <= 8 * 43

\* A call that yields appends one item, keeps the earlier ones and moves the
\* cursor forward; the call that returns None comes when every collision-free
\* pair has been yielded, and the items are those the search pushes.
YieldStep ==
  /\ (vp_pc = "iter" /\ vp_items' # vp_items /\ vp_brick' = vp_brick) =>
       /\ Len(vp_items') = Len(vp_items) + 1
       /\ SubSeq(vp_items', 1, Len(vp_items)) = vp_items
       /\ CursorPos(vp_it'.brick_index, vp_it'.index) > TestsMade
  /\ (vp_pc = "iter" /\ (vp_brick' # vp_brick \/ vp_pc' = "done")) =>
       /\ Len(vp_items) = Cardinality(CollisionFreePairs(vp_board, vp_brick))
       /\ vp_items = valid_placements(vp_board, all_bricks[vp_brick])
       /\ Len(vp_items) <= 8 * 43
       /\ Len(all_bricks[vp_brick].brick_variants) <= 8

\* C16: valid_placements yields one board for each (orientation, offset in
\* 0..=42) pair whose shifted pattern misses the board's occupancy and none for
\* any other pair, orientation by orientation in catalog order with offsets
\* increasing; a resumed enumerator goes on after the pair it yielded last; the
\* board yielded has occupancy = board.occupancy | candidate and placed =
\* board.placed followed by candidate; there are at most 8 x 43 = 344 items.
C16_PlacementEnumeration == [] YieldsInOrder /\ [][YieldStep]_vars

C16_Witness ==
  /\ vp_pc = "iter"
  /\ vp_board # BoardNew
  /\ vp_brick >= 2
  /\ Len(vp_items) >= 50
  /\ LastPair[1] >= 2
  /\ LastPair[2] >= 1
  /\ Cardinality(CollisionFreePairs(vp_board, vp_brick)) > Len(vp_items)
  /\ Cardinality(CollisionFreePairs(vp_board, vp_brick))
       < Len(all_bricks[vp_brick].brick_variants) * 43

\* ------------------------------------------------------------------
MinOf(S) == CHOOSE x \in S : \A y \in S : x <= y

\* The (orientation, offset) pair of catalog brick b that gives pattern p.
PairOf(b, p) ==
  LET first == MinOf(p)
      offset(v) == first - MinOf(all_bricks[b].brick_variants[v].bit_pattern)
      orientation ==
        CHOOSE v \in 1 .. Len(all_bricks[b].brick_variants) :
          /\ offset(v) \in 0 .. 42
          /\ Shr(all_bricks[b].brick_variants[v].bit_pattern, offset(v)) = p
  IN  << orientation, offset(orientation) >>

\* placed list q was generated after placed list p where they part: at depth d
\* (the length of p) they had the same parent and q's d-th placement, or that of
\* q's ancestor, comes later in the enumeration.
GeneratedAfter(q, p) ==
  LET d == Len(p)
  IN  /\ d >= 1
      /\ Len(q) >= d
      /\ SubSeq(q, 1, d - 1) = SubSeq(p, 1, d - 1)
      /\ PairBefore(PairOf(bricks.from + d - 1, p[d]), PairOf(bricks.from + d - 1, q[d]))

\* Bottom to top, each frame is a later sibling of the frame below it, or lies
\* in the subtree of one: an earlier sibling is popped only when that subtree
\* has gone.
StackInGenerationOrder ==
  pc = "search" =>
    \A i \in 1 .. (Len(stack) - 1) :
      GeneratedAfter(stack[i + 1].board.placed_bricks, stack[i].board.placed_bricks)

\* The first placement where two solutions differ.
FirstDifference(p, q) == MinOf({ d \in DOMAIN p : p[d] # q[d] })

\* Solutions come out in the reverse of generation order.
EmittedInReverseOrder ==
  (Searching /\ Len(emitted) >= 2) =>
    LET q == emitted[Len(emitted) - 1].placed_bricks
        p == emitted[Len(emitted)].placed_bricks
        d == FirstDifference(p, q)
    IN  PairBefore(PairOf(bricks.from + d - 1, p[d]), PairOf(bricks.from + d - 1, q[d]))

\* An expansion leaves the frames below as they were and pushes one child per
\* collision-free pair of the first remaining brick, in enumeration order.
PushesInEnumerationOrder ==
  (pc = "search" /\ stack' # stack /\ ~ is_empty(Top.bricks)) =>
    LET b == Top.bricks.from
        base == Len(stack) - 1
        children == Len(stack') - base
        last(i) == stack'[base + i].board.placed_bricks[Len(Top.board.placed_bricks) + 1]
    IN  /\ SubSeq(stack', 1, base) = Popped
        /\ children = Cardinality(CollisionFreePairs(Top.board, b))
        /\ \A i \in 1 .. children :
             /\ stack'[base + i].board.placed_bricks
                  = Append(Top.board.placed_bricks, last(i))
             /\ PairOf(b, last(i)) \in CollisionFreePairs(Top.board, b)
             /\ stack'[base + i].bricks = Slice(b + 1, Top.bricks.to)
        /\ \A i \in 1 .. (children - 1) :
             PairBefore(PairOf(b, last(i)), PairOf(b, last(i + 1)))

\* Only the top frame is ever removed.
PopsTheTop ==
  (pc = "search" /\ stack' # stack) => SubSeq(stack', 1, Len(stack) - 1) = Popped

\* C18: an expansion pushes the children in placement-enumeration order and
\* leaves the frames already on the stack unchanged; the top is popped next,
\* so children are popped in the reverse of generation order, and every frame
\* of the subtree of a later-generated child is above, and popped before, each
\* earlier-generated sibling; solutions are emitted in that reverse order.
C18_LifoOrder ==
  /\ [] StackInGenerationOrder
  /\ [] EmittedInReverseOrder
  /\ [][PushesInEnumerationOrder]_vars
  /\ [][PopsTheTop]_vars

C18_Witness ==
  /\ pc = "search"
  /\ bricks = FullCatalog
  /\ Len(emitted) = 2
  /\ Len(stack) >= 10
  /\ \E i \in 1 .. (Len(stack) - 1) :
       Len(stack[i + 1].board.placed_bricks) > Len(stack[i].board.placed_bricks) + 1
  /\ \E i \in 1 .. (Len(stack) - 1) :
       Len(stack[i + 1].board.placed_bricks) = Len(stack[i].board.placed_bricks)

\* ------------------------------------------------------------------
MonthCell(m) == IF m \in 1 .. 6 THEN m - 1 ELSE m + 1

DayCell(d) ==
  CASE d \in 1 .. 7   -> d + 15
    [] d \in 8 .. 14  -> d + 16
    [] d \in 15 .. 21 -> d + 17
    [] d \in 22 .. 28 -> d + 18
    [] d \in 29 .. 31 -> d + 19

RECURSIVE SumOfCells(_)
SumOfCells(b) ==
  IF b = 0
    THEN 0
    ELSE Cardinality(all_bricks[b].brick_variants[1].bit_pattern) + SumOfCells(b - 1)

\* The number of cells the 8 bricks cover.
BrickCells == SumOfCells(NumBricks)

\* C19: for a valid (day, month) for_date returns the base board with two more
\* occupied cells, both free on the base board: the month cell (index month-1
\* for months 1-6, month+1 for 7-12) and the day cell (index day+15, +16, +17,
\* +18, +19 for days 1-7, 8-14, 15-21, 22-28, 29-31); its placed list is empty;
\* 41 cells remain free, as many as the 8 bricks cover; a different valid
\* (day, month) gives a different board.
C19_DateBoard ==
  (pc = "dated" /\ date_result.ok) =>
    LET board == date_result.board
        free == Word \ board.bitboard
    IN  /\ board.bitboard = BoardNew.bitboard \cup {MonthCell(month), DayCell(day)}
        /\ MonthCell(month) # DayCell(day)
        /\ is_free(BoardNew, MonthCell(month))
        /\ is_free(BoardNew, DayCell(day))
        /\ Cardinality(board.bitboard \ BoardNew.bitboard) = 2
        /\ board.placed_bricks = << >>
        /\ Cardinality(free) = 41
        /\ Cardinality(free) = BrickCells
        /\ \A d \in 1 .. 31, m \in 1 .. 12 :
             << d, m >> # << day, month >> => for_date(d, m).board # board

C19_Witness ==
  /\ pc = "dated"
  /\ date_result.ok
  /\ day = 29
  /\ month = 7
  /\ is_occupied(date_result.board, 8)
  /\ is_occupied(date_result.board, 48)

\* ------------------------------------------------------------------
\* The cells of P moved dr rows down and dc columns right (up, left if negative).
MovedBy(P, dr, dc) == { 8 * ((i \div 8) + dr) + ((i % 8) + dc) : i \in P }

\* Every cell of P stays in its row's 8 columns and in the 8 rows.
FitsGrid(P, dr, dc) ==
  \A i \in P : (i \div 8) + dr \in 0 .. 7 /\ (i % 8) + dc \in 0 .. 7

Moves == (-7) .. 7

\* The legal placements of catalog brick b on a board: an orientation moved by
\* whole rows and columns, no cell leaving the grid, all cells free.
LegalPlacements(board, b) ==
  { MovedBy(all_bricks[b].brick_variants[v].bit_pattern, dr, dc) :
      << v, dr, dc >> \in
        { m \in (1 .. Len(all_bricks[b].brick_variants)) \X Moves \X Moves :
            /\ FitsGrid(all_bricks[b].brick_variants[m[1]].bit_pattern, m[2], m[3])
            /\ MovedBy(all_bricks[b].brick_variants[m[1]].bit_pattern, m[2], m[3])
                 \cap board.bitboard = {} } }

\* On the base board, of the brick being enumerated: every legal move of an
\* orientation is that orientation >> k for a k in 0..=42, and no orientation
\* shifted by 43..=60 misses the guard mask.
OffsetsSuffice ==
  (vp_pc # "idle" /\ vp_board = BoardNew) =>
    \A v \in 1 .. Len(all_bricks[vp_brick].brick_variants) :
      LET P == all_bricks[vp_brick].brick_variants[v].bit_pattern
      IN  /\ \A dr \in Moves, dc \in Moves :
               (FitsGrid(P, dr, dc) /\ MovedBy(P, dr, dc) \cap vp_board.bitboard = {}) =>
                 /\ 8 * dr + dc \in 0 .. 42
                 /\ Shr(P, 8 * dr + dc) = MovedBy(P, dr, dc)
          /\ \A k \in 43 .. 60 : Shr(P, k) \cap vp_board.bitboard # {}

\* When the enumeration of a brick on the base board ends, the placements
\* yielded are the brick's legal placements.
YieldsEveryLegalPlacement ==
  (vp_pc = "iter" /\ vp_board = BoardNew /\ (vp_brick' # vp_brick \/ vp_pc' = "done")) =>
    { vp_items[n].placed_bricks[1] : n \in DOMAIN vp_items }
      = LegalPlacements(vp_board, vp_brick)

\* C20: the offsets 0..=42 lose no legal placement on the base board: every
\* translation of an orientation by whole rows and columns, without wrap, onto
\* free cells is orientation >> k for some k in 0..=42, no orientation shifted
\* by 43..=60 is collision-free, and the enumerator yields every legal
\* placement of each brick.
C20_OffsetRangeComplete == [] OffsetsSuffice /\ [][YieldsEveryLegalPlacement]_vars

C20_Witness ==
  /\ vp_pc = "iter"
  /\ vp_board = BoardNew
  /\ vp_items # << >>
  /\ vp_it.index = 43
  /\ vp_items[Len(vp_items)].placed_bricks[1] \in LegalPlacements(vp_board, vp_brick)

====
